---- MODULE Spec2Model ----
(***************************************************************************)
(* Model of the topology-building pipeline of kml2ofds.py:                 *)
(*   process_kml_file (snap_to_line) -> break_spans_at_node_points ->      *)
(*   add_missing_nodes -> add_nodes_to_spans ->                            *)
(*   merge_nearby_auto_gen_nodes -> merge_nearby_auto_gen_and_proper_nodes *)
(*   -> to_file -> conversion and the JSON file                            *)
(*                                                                         *)
(* Geometry.  Every input coordinate lies on the line lat = 0 and every    *)
(* polyline runs west to east (strictly increasing longitude), so a        *)
(* position is one integer: its longitude in units of 1e-9 degree.  On     *)
(* such inputs shapely's predicates reduce to interval arithmetic:         *)
(*   point.distance(q)                 = |p - q|                           *)
(*   g.intersects(Point(p).buffer(r))  = p within r of the interval of g   *)
(*   q.within(Point(p).buffer(r))      = |p - q| < r   (interior only)     *)
(*   nearest_points(p, g)[1]           = p clamped to the interval of g    *)
(*   split(g, polygons)                = g cut where it crosses the        *)
(*                                       boundary of the polygons          *)
(* A None value is modelled by the record Null (node ids are positive).    *)
(*                                                                         *)
(* Besides the pipeline (Spec) five parts are run alone on inputs the      *)
(* pipeline's geometry cannot hold: snap_to_line on vertices closer        *)
(* together than the snapping tolerance (SnapSpec), remove_duplicate_nodes  *)
(* on named 2-D point records (DedupSpec), the split and rejoin of a       *)
(* polyline that meets itself (RejoinSpec), the loops of                   *)
(* rejoin_self_intersection_breaks one iteration at a time on any sequence *)
(* of pieces (RejoinLoopSpec), and the extraction of the LineStrings of a  *)
(* Folder's Placemarks by process_document_element (ExtractSpec).          *)
(***************************************************************************)
EXTENDS Integers, Sequences, FiniteSets, TLC

\* ---- program constants (units of 1e-9 degree) ----
SplitBuffer == 1
SynthTolerance == 1000
SnapTolerance == 100000
LinkTolerance == 1000000
PassAThreshold == 100000000
PassBThreshold == 1000000
MinVertices == 2

AutoName == "Auto generated missing node"

\* ---- bounds of the explored inputs ----
MaxNodes == 2
MaxSpans == 2
MaxVerts == 3
MaxRecords == 3
MaxPathLen == 6
MaxPieces == 4
MaxPlacemarks == 2

\* longitudes a polyline vertex may take, and those a placemark point may take
Coords == {0, 79500000, 80000000, 120000000, 160000000, 300000000}
NodeCoords == Coords \cup {79950000}
\* longitudes for the inputs of snap_to_line alone: vertices closer together than
\* twice the snapping tolerance, points at and around one tolerance from them
SnapCoords == {0, 50000, 150000, 400000}
SnapNodeCoords == {0, 50000, 100000, 250000, 350000, 400000}
\* point records for remove_duplicate_nodes alone: <<lon, lat>> in units of 1e-4
\* degree (10.0001 is 100001), and the precisions it is run with
DedupPoints == {<<100001, 50001>>, <<100002, 50002>>, <<100500, 50001>>,
                <<102500, 0>>, <<-10000, 0>>, <<-20000, 0>>}
DedupNames == {"Site A", "Site B"}
Precisions == {1, 2}
\* the <<coordinate, precision>> pairs exactly half way between two roundings
\* whose double is above the half, so that round() goes up (10.05 is, 10.25 is not)
HalfRoundsUp == {<<100500, 1>>}
\* the distinct positions a self-intersecting polyline may visit
PathPoints == {1, 2, 3, 4, 5}
\* the pieces handed to rejoin_self_intersection_breaks step by step: vertex
\* sequences over two positions, so that any two of them may or may not meet
AnyPieces == {<<(<<1, 0>>), <<2, 0>>>>, <<(<<2, 0>>), <<1, 0>>>>,
              <<(<<1, 0>>), <<2, 0>>, <<1, 0>>>>, <<(<<2, 0>>), <<1, 0>>, <<2, 0>>>>}
AnyPoints == {<<1, 0>>, <<2, 0>>}
\* the coordinate lists of a Placemark's LineString, and the Placemarks of a Folder
LineCoordinates == {<<>>, <<1>>, <<2>>, <<1, 2>>, <<2, 1>>, <<1, 2, 1>>}
PlacemarkNames == {"L1", "L2"}
PlacemarkKinds == {"LineString", "MultiGeometry"}
NodeNames == <<"A", "B", "C", "D">>
SpanNames == <<"S1", "S2", "S3", "S4">>

Null == [id |-> 0, name |-> "None", pos |-> 0]

VARIABLES
    pc,            \* stage of main() about to run
    nodes,         \* gdf_nodes / gdf_ofds_nodes : sequence of [id, name, pos]
    lines,         \* gdf_spans before splitting : sequence of [name, geom]
    spans,         \* gdf_spans / gdf_ofds_spans after splitting
    nextId,        \* uuid4 stand-in: next unused identifier
    rawNodes,      \* gdf_nodes before snapping
    nodesPreSynth, \* gdf_ofds_nodes handed to add_missing_nodes
    nodesPreA,     \* Node and Span collections handed to Pass A
    spansPreA,
    mergedA,       \* merged_node_ids of Pass A
    rewritesA,     \* reference rewrites done by Pass A
    nodesPreB,     \* Node and Span collections handed to Pass B
    spansPreB,
    foundB,        \* found_clusters of Pass B
    mergedB,       \* merged_node_ids of Pass B
    rewritesB,     \* reference rewrites done by Pass B
    files,         \* the files written so far
    geojson_nodes, \* point records handed to remove_duplicate_nodes
    precision,     \* its rounding precision
    unique_nodes,  \* what it returns
    unique_again,  \* what it returns for unique_nodes
    path,          \* vertices of one self-intersecting polyline
    nodeAt,        \* the vertices of path a Node sits on
    self_intersect,\* find_self_intersection(path)
    split_lines,   \* split(path, buffered_area).geoms
    joined_lines,  \* rejoin_self_intersection_breaks(split_lines, self_intersect)
    loop_i,        \* rejoin_self_intersection_breaks step by step: i,
    loop_current,  \* current_line,
    loop_next,     \* next_line,
    loop_joined,   \* joined_line,
    reads,         \* the indices of split_lines.geoms read so far
    used,          \* the indices of the pieces put into an output segment, in order
    placemarks,    \* the Placemarks of one Folder: [name, kind, coordinates]
    pm,            \* the Placemark the loop of process_document_element is at
    shapely_line,  \* its local shapely_line: [bound, coords]
    geojson_spans  \* its geojson_spans: [name, coordinates, placemark]

\* the variables of the stand-alone runs of remove_duplicate_nodes and of
\* rejoin_self_intersection_breaks
loopVars == <<loop_i, loop_current, loop_next, loop_joined, reads, used>>

extractVars == <<placemarks, pm, shapely_line, geojson_spans>>

fnVars == <<geojson_nodes, precision, unique_nodes, unique_again, path, nodeAt,
            self_intersect, split_lines, joined_lines, loopVars, extractVars>>

vars == <<pc, nodes, lines, spans, nextId, rawNodes, nodesPreSynth, nodesPreA,
          spansPreA, mergedA, rewritesA, nodesPreB, spansPreB, foundB, mergedB,
          rewritesB, files, fnVars>>

\* ---- helpers ----
Abs(x) == IF x < 0 THEN -x ELSE x
Dist(p, q) == Abs(p - q)
First(g) == g[1]
Last(g) == g[Len(g)]
Range(s) == {s[i] : i \in 1..Len(s)}
Min(S) == CHOOSE x \in S : \A y \in S : x <= y

RECURSIVE SortedSeq(_)
SortedSeq(S) == IF S = {} THEN <<>> ELSE <<Min(S)>> \o SortedSeq(S \ {Min(S)})

RECURSIVE SelectIdx(_, _, _)
\* the subsequence of s whose indices satisfy keep, in order
SelectIdx(s, keep, i) ==
    IF i > Len(s) THEN <<>>
    ELSE (IF keep[i] THEN <<s[i]>> ELSE <<>>) \o SelectIdx(s, keep, i + 1)

\* strictly increasing sequences over Coords with MinVertices..MaxVerts vertices
Polylines ==
    {SortedSeq(V) : V \in {W \in SUBSET Coords :
                             Cardinality(W) >= MinVertices /\ Cardinality(W) <= MaxVerts}}

SnapPolylines ==
    {SortedSeq(V) : V \in {W \in SUBSET SnapCoords :
                             Cardinality(W) >= MinVertices /\ Cardinality(W) <= MaxVerts}}

\* ---- snap_to_line ----
NearestOnLine(p, g) ==
    IF p < First(g) THEN First(g) ELSE IF p > Last(g) THEN Last(g) ELSE p

RECURSIVE NearestScanLastWins(_, _, _, _)
RECURSIVE NearestScan(_, _, _, _)
\* NearestScan with <= for the comparison: the last of several nearest lines wins
NearestScanLastWins(p, ls, i, best) ==
    IF i > Len(ls) THEN best
    ELSE LET q == NearestOnLine(p, ls[i].geom)
             d == Dist(p, q)
         IN  IF (~best.found) \/ d <= best.dist
             THEN NearestScanLastWins(p, ls, i + 1,
                              [found |-> TRUE, dist |-> d, line |-> i, point |-> q])
             ELSE NearestScanLastWins(p, ls, i + 1, best)

\* the loop of snap_to_line; best = [found, dist, line, point]
NearestScan(p, ls, i, best) ==
    IF i > Len(ls) THEN best
    ELSE LET q == NearestOnLine(p, ls[i].geom)
             d == Dist(p, q)
         IN  IF (~best.found) \/ d < best.dist
             THEN NearestScan(p, ls, i + 1,
                              [found |-> TRUE, dist |-> d, line |-> i, point |-> q])
             ELSE NearestScan(p, ls, i + 1, best)

\* snap_to_line testing the end buffer before the start buffer
snap_to_lineEndFirst(p, ls) ==
    LET best == NearestScan(p, ls, 1, [found |-> FALSE, dist |-> 0, line |-> 0, point |-> 0])
        g == ls[best.line].geom
    IN  IF Dist(best.point, Last(g)) < SnapTolerance THEN Last(g)
        ELSE IF Dist(best.point, First(g)) < SnapTolerance THEN First(g)
        ELSE best.point

snap_to_line(p, ls) ==
    LET best == NearestScan(p, ls, 1, [found |-> FALSE, dist |-> 0, line |-> 0, point |-> 0])
        g == ls[best.line].geom
    IN  IF Dist(best.point, First(g)) < SnapTolerance THEN First(g)
        ELSE IF Dist(best.point, Last(g)) < SnapTolerance THEN Last(g)
        ELSE best.point

\* ---- break_spans_at_node_points ----
\* the Nodes whose 1e-9 buffer intersects the polyline
Intersected(g, ns) ==
    {i \in 1..Len(ns) : ns[i].pos >= First(g) - SplitBuffer
                        /\ ns[i].pos <= Last(g) + SplitBuffer}

\* where the boundary of the matched buffers crosses the interior of the polyline
CutPoints(g, ns) ==
    {c \in UNION {{ns[i].pos - SplitBuffer, ns[i].pos + SplitBuffer} : i \in Intersected(g, ns)} :
        c > First(g) /\ c < Last(g)}

RECURSIVE CutSeq(_, _, _, _)
\* walk the vertices (with the cut points inserted) and close a piece at every cut
CutSeq(vs, cuts, i, cur) ==
    IF i > Len(vs) THEN <<cur>>
    ELSE IF vs[i] \in cuts
         THEN <<Append(cur, vs[i])>> \o CutSeq(vs, cuts, i + 1, <<vs[i]>>)
         ELSE CutSeq(vs, cuts, i + 1, Append(cur, vs[i]))

\* shapely.ops.split(line, MultiPolygon of buffers): line.difference(boundary)
split(g, ns) ==
    LET cuts == CutPoints(g, ns)
    IN  IF cuts = {} THEN <<g>>
        ELSE CutSeq(SortedSeq(Range(g) \cup cuts), cuts, 1, <<>>)

RECURSIVE PointNames(_, _, _)
PointNames(ns, hit, i) ==
    IF i > Len(ns) THEN <<>>
    ELSE (IF i \in hit THEN <<ns[i].name>> ELSE <<>>) \o PointNames(ns, hit, i + 1)

RECURSIVE KeepLongFromTwo(_, _)
RECURSIVE KeepLong(_, _)
\* KeepLong letting the segments of exactly 2 vertices through
KeepLongFromTwo(pieces, i) ==
    IF i > Len(pieces) THEN <<>>
    ELSE (IF Len(pieces[i]) >= 2 THEN <<pieces[i]>> ELSE <<>>)
         \o KeepLongFromTwo(pieces, i + 1)

\* the "more than 2 vertices" filter of break_spans_at_node_points
KeepLong(pieces, i) ==
    IF i > Len(pieces) THEN <<>>
    ELSE (IF Len(pieces[i]) > 2 THEN <<pieces[i]>> ELSE <<>>) \o KeepLong(pieces, i + 1)

\* the segments emitted for one polyline (identifiers are assigned by the caller)
SegmentsOf(line, ns) ==
    LET hit == Intersected(line.geom, ns)
        pieces == IF hit # {} THEN split(line.geom, ns) ELSE <<line.geom>>
        kept == KeepLong(pieces, 1)
    IN  [k \in 1..Len(kept) |->
            [name |-> line.name, geom |-> kept[k],
             pointNames |-> IF hit # {} THEN PointNames(ns, hit, 1) ELSE <<>>]]

RECURSIVE BreakAll(_, _, _)
BreakAll(ls, ns, i) ==
    IF i > Len(ls) THEN <<>> ELSE SegmentsOf(ls[i], ns) \o BreakAll(ls, ns, i + 1)

break_spans_at_node_points(ns, ls, id0) ==
    LET segs == BreakAll(ls, ns, 1)
    IN  [k \in 1..Len(segs) |->
            [id |-> id0 + k - 1, name |-> segs[k].name, geom |-> segs[k].geom,
             pointNames |-> segs[k].pointNames, start |-> Null, end |-> Null]]

\* ---- add_missing_nodes ----
\* append_node placing the Node one tolerance and more away from the vertex
append_nodeOffVertex(coords, id) ==
    [id |-> id, name |-> AutoName, pos |-> coords + SynthTolerance + 1]

append_node(coords, id) == [id |-> id, name |-> AutoName, pos |-> coords]

\* NodeExists with the Pass A threshold taken for the tolerance
NodeExistsLoose(v, ns) == \E i \in 1..Len(ns) : Dist(ns[i].pos, v) <= PassAThreshold

\* gdf_nodes.geometry.intersects(Point(v).buffer(tolerance)).any()
NodeExists(v, ns) == \E i \in 1..Len(ns) : Dist(ns[i].pos, v) <= SynthTolerance

SameGeometry(new, v) == \E i \in 1..Len(new) : new[i].pos = v

\* AddIfMissing without the comparison against new_nodes
AddIfMissingNoDedupe(v, ns, new, id0) ==
    IF ~NodeExists(v, ns)
    THEN Append(new, append_node(v, id0 + Len(new)))
    ELSE new

\* one endpoint of one segment: synthesize unless covered or already synthesized
AddIfMissing(v, ns, new, id0) ==
    IF (~NodeExists(v, ns)) /\ ~SameGeometry(new, v)
    THEN Append(new, append_node(v, id0 + Len(new)))
    ELSE new

RECURSIVE SynthScan(_, _, _, _, _)
SynthScan(ss, ns, i, new, id0) ==
    IF i > Len(ss) THEN new
    ELSE SynthScan(ss, ns, i + 1,
                   AddIfMissing(Last(ss[i].geom), ns,
                                AddIfMissing(First(ss[i].geom), ns, new, id0), id0),
                   id0)

\* new_nodes of add_missing_nodes; the result is gdf_nodes followed by them
add_missing_nodes(ss, ns, id0) == SynthScan(ss, ns, 1, <<>>, id0)

\* ---- add_nodes_to_spans / find_end_point ----
\* find_end_point taking the first Node within the tolerance, not the closest
find_end_pointFirstMatch(v, ns) ==
    LET matched == {i \in 1..Len(ns) : Dist(ns[i].pos, v) < LinkTolerance}
    IN  IF matched = {} THEN Null
        ELSE ns[Min(matched)]

find_end_point(v, ns) ==
    LET matched == {i \in 1..Len(ns) : Dist(ns[i].pos, v) < LinkTolerance}
    IN  IF matched = {} THEN Null
        ELSE LET dmin == Min({Dist(ns[i].pos, v) : i \in matched})
             IN  ns[Min({i \in matched : Dist(ns[i].pos, v) = dmin})]

add_nodes_to_spans(ss, ns) ==
    [k \in 1..Len(ss) |->
        [ss[k] EXCEPT !.start = find_end_point(First(ss[k].geom), ns),
                      !.end = find_end_point(Last(ss[k].geom), ns)]]

\* json.loads(None) raises: a Span with a None start or end aborts either pass
HasNullEnd(ss) == \E k \in 1..Len(ss) : ss[k].start = Null \/ ss[k].end = Null

NotMerged(ns, merged) == [i \in 1..Len(ns) |-> ns[i].id \notin merged]

\* ---- merge_nearby_auto_gen_nodes (Pass A) ----
FilteredNodes(ns) == SelectIdx(ns, [i \in 1..Len(ns) |-> ns[i].name = AutoName], 1)

\* tree.query_radius: 0-based indices of the points within r of point c
QueryRadius(ns, c, r) == {j \in 0..(Len(ns) - 1) : Dist(ns[j + 1].pos, ns[c + 1].pos) <= r}

\* UniquePairs querying the tree with half the threshold
UniquePairsHalfRadius(filt, r) ==
    {<<i, j>> \in (0..(Len(filt) - 1)) \X (0..(Len(filt) - 1)) :
        /\ i < j
        /\ \E c \in 0..(Len(filt) - 1) : {i, j} \subseteq QueryRadius(filt, c, r \div 2)}

\* unique_pairs: every two members of one neighbour list, as (min, max)
UniquePairs(filt, r) ==
    {<<i, j>> \in (0..(Len(filt) - 1)) \X (0..(Len(filt) - 1)) :
        /\ i < j
        /\ \E c \in 0..(Len(filt) - 1) : {i, j} \subseteq QueryRadius(filt, c, r)}

\* MergeStepA moving the second vertex along with the first
MergeStepAMovesSecond(row, orig, pair, filt) ==
    LET loser == filt[pair[2] + 1]
        surv == filt[pair[1] + 1]
    IN  IF row.sid = loser.id
        THEN [row EXCEPT !.sid = surv.id,
                         !.geom = [orig.geom EXCEPT ![1] = surv.pos, ![2] = surv.pos],
                         !.merged = @ \cup {loser.id},
                         !.rew = @ \cup {[span |-> orig.id, side |-> "start",
                                          from |-> loser.id, to |-> surv.id]}]
        ELSE IF row.eid = loser.id
        THEN [row EXCEPT !.eid = surv.id,
                         !.geom = [orig.geom EXCEPT ![Len(orig.geom)] = surv.pos],
                         !.merged = @ \cup {loser.id},
                         !.rew = @ \cup {[span |-> orig.id, side |-> "end",
                                          from |-> loser.id, to |-> surv.id]}]
        ELSE row

\* the if / elif of the Pass A loop body for one Span row and one pair.
\* orig is the row as iterrows() yielded it: its geometry is read afresh for every rewrite.
MergeStepA(row, orig, pair, filt) ==
    LET loser == filt[pair[2] + 1]
        surv == filt[pair[1] + 1]
    IN  IF row.sid = loser.id
        THEN [row EXCEPT !.sid = surv.id,
                         !.geom = [orig.geom EXCEPT ![1] = surv.pos],
                         !.merged = @ \cup {loser.id},
                         !.rew = @ \cup {[span |-> orig.id, side |-> "start",
                                          from |-> loser.id, to |-> surv.id]}]
        ELSE IF row.eid = loser.id
        THEN [row EXCEPT !.eid = surv.id,
                         !.geom = [orig.geom EXCEPT ![Len(orig.geom)] = surv.pos],
                         !.merged = @ \cup {loser.id},
                         !.rew = @ \cup {[span |-> orig.id, side |-> "end",
                                          from |-> loser.id, to |-> surv.id]}]
        ELSE row

RowOf(s) == [sid |-> s.start.id, eid |-> s.end.id, geom |-> s.geom, merged |-> {}, rew |-> {}]

RECURSIVE PairOrders(_, _, _)
\* unique_pairs is list(set(...)): its iteration order is not fixed by the program.
\* The rows are independent of one another, so applying a pair to every row before
\* the next pair gives the rows the Span-by-Span loops produce for that order.
\* frontier: the [rem, rows] reachable after some prefix of some order.
PairOrders(frontier, ss, filt) ==
    IF \A f \in frontier : f.rem = {} THEN {f.rows : f \in frontier}
    ELSE PairOrders(
           UNION {{[rem |-> f.rem \ {p},
                    rows |-> [k \in 1..Len(ss) |-> MergeStepA(f.rows[k], ss[k], p, filt)]]
                   : p \in f.rem} : f \in frontier},
           ss, filt)

Finish(ss, ns, rows) ==
    LET merged == UNION {rows[k].merged : k \in 1..Len(ss)}
    IN  [spans |-> [k \in 1..Len(ss) |->
                       [ss[k] EXCEPT !.start.id = rows[k].sid, !.end.id = rows[k].eid,
                                     !.geom = rows[k].geom]],
         nodes |-> SelectIdx(ns, NotMerged(ns, merged), 1),
         merged |-> merged,
         rew |-> UNION {rows[k].rew : k \in 1..Len(ss)}]

\* the results Pass A can return (one per outcome of the pair order)
merge_nearby_auto_gen_nodes(ns, ss, threshold) ==
    LET filt == FilteredNodes(ns)
    IN  IF Len(filt) = 0
        THEN {[spans |-> ss, nodes |-> ns, merged |-> {}, rew |-> {}]}
        ELSE {Finish(ss, ns, rows) :
                rows \in PairOrders({[rem |-> UniquePairs(filt, threshold),
                                      rows |-> [k \in 1..Len(ss) |-> RowOf(ss[k])]]},
                                    ss, filt)}

\* ---- merge_nearby_auto_gen_and_proper_nodes (Pass B) ----
RECURSIVE Perms(_)
Perms(S) == IF S = {} THEN {<<>>}
            ELSE UNION {{<<x>> \o p : p \in Perms(S \ {x})} : x \in S}

RECURSIVE FirstAuto(_, _, _)
\* node_names.index("Auto generated missing node"), 0-based; -1 when absent
FirstAuto(cluster, ns, k) ==
    IF k > Len(cluster) THEN -1
    ELSE IF ns[cluster[k] + 1].name = AutoName THEN k - 1
    ELSE FirstAuto(cluster, ns, k + 1)

\* the reordering applied to one cluster (a sequence of 0-based Node indices)
Reorder(cluster, ns) ==
    LET auto_generated_index == FirstAuto(cluster, ns, 1)
        Other(i) == i # auto_generated_index
    IN  IF auto_generated_index # 0
        THEN <<cluster[auto_generated_index + 1]>> \o SelectSeq(cluster, Other)
        ELSE cluster

\* the members of clusters that contain a synthesized Node: only their relative
\* order in the KD-tree's index array can influence the result
Relevant(ns, r) ==
    UNION {QueryRadius(ns, c, r) : c \in {d \in 0..(Len(ns) - 1) :
              /\ Cardinality(QueryRadius(ns, d, r)) > 1
              /\ \E j \in QueryRadius(ns, d, r) : ns[j + 1].name = AutoName}}

RECURSIVE FoundClusters(_, _, _, _)
\* found_clusters, for the order ord in which query_radius lists neighbours
FoundClusters(ns, r, ord, c) ==
    IF c > Len(ns) - 1 THEN <<>>
    ELSE LET nb == QueryRadius(ns, c, r)
             In(x) == x \in nb
             cluster == SelectSeq(ord, In)
         IN  (IF Cardinality(nb) > 1 /\ (\E j \in nb : ns[j + 1].name = AutoName)
              THEN <<Reorder(cluster, ns)>> ELSE <<>>)
             \o FoundClusters(ns, r, ord, c + 1)

\* MergeStepB recording the surviving Node's id in merged_node_ids
MergeStepBDropsSurvivor(row, orig, cluster, ns) ==
    LET loser == ns[cluster[1] + 1]
        surv == ns[cluster[2] + 1]
    IN  IF row.sid = loser.id
        THEN [row EXCEPT !.sid = surv.id,
                         !.geom = [orig.geom EXCEPT ![1] = surv.pos],
                         !.merged = @ \cup {surv.id}]
        ELSE IF row.eid = loser.id
        THEN [row EXCEPT !.eid = surv.id,
                         !.geom = [orig.geom EXCEPT ![Len(orig.geom)] = surv.pos],
                         !.merged = @ \cup {surv.id}]
        ELSE row

\* the if / elif of the Pass B loop body for one Span row and one cluster
MergeStepB(row, orig, cluster, ns) ==
    LET loser == ns[cluster[1] + 1]
        surv == ns[cluster[2] + 1]
    IN  IF row.sid = loser.id
        THEN [row EXCEPT !.sid = surv.id,
                         !.geom = [orig.geom EXCEPT ![1] = surv.pos],
                         !.merged = @ \cup {loser.id},
                         !.rew = @ \cup {[span |-> orig.id, side |-> "start",
                                          from |-> loser.id, to |-> surv.id,
                                          cluster |-> cluster]}]
        ELSE IF row.eid = loser.id
        THEN [row EXCEPT !.eid = surv.id,
                         !.geom = [orig.geom EXCEPT ![Len(orig.geom)] = surv.pos],
                         !.merged = @ \cup {loser.id},
                         !.rew = @ \cup {[span |-> orig.id, side |-> "end",
                                          from |-> loser.id, to |-> surv.id,
                                          cluster |-> cluster]}]
        ELSE row

RECURSIVE ApplyClusters(_, _, _, _, _)
ApplyClusters(row, orig, clusters, k, ns) ==
    IF k > Len(clusters) THEN row
    ELSE ApplyClusters(MergeStepB(row, orig, clusters[k], ns), orig, clusters, k + 1, ns)

\* the results Pass B can return (one per neighbour order), with found_clusters
merge_nearby_auto_gen_and_proper_nodes(ns, ss, threshold) ==
    {LET found == FoundClusters(ns, threshold, ord, 0)
         rows == [k \in 1..Len(ss) |-> ApplyClusters(RowOf(ss[k]), ss[k], found, 1, ns)]
     IN  [out |-> Finish(ss, ns, rows), found |-> found]
     : ord \in Perms(Relevant(ns, threshold))}

\* ---- remove_duplicate_nodes ----
\* round(c, P) for P in 1..4, in units of 1e-4 degree
Round(c, P) ==
    LET m == IF P = 1 THEN 1000 ELSE IF P = 2 THEN 100 ELSE IF P = 3 THEN 10 ELSE 1
        q == c \div m
        r == c % m
    IN  IF 2 * r > m \/ (2 * r = m /\ <<c, P>> \in HalfRoundsUp)
        THEN (q + 1) * m ELSE q * m

\* the key the code builds for one record
Key(node, P) == <<node.name, Round(node.lon, P), Round(node.lat, P)>>

\* hash() of a float: CPython keeps -1 for errors, so -1.0 hashes as -2.0 does
HashFloat(c) == IF c = -10000 THEN -20000 ELSE c

\* hash() of the key tuple: a mix of the hashes of its items
NodeHash(node, P) ==
    LET k == Key(node, P) IN <<k[1], HashFloat(k[2]), HashFloat(k[3])>>

RECURSIVE DedupScan(_, _, _, _, _)
\* the loop of remove_duplicate_nodes
DedupScan(ns, P, i, seen_hashes, unique) ==
    IF i > Len(ns) THEN unique
    ELSE LET node_hash == NodeHash(ns[i], P)
         IN  IF node_hash \notin seen_hashes
             THEN DedupScan(ns, P, i + 1, seen_hashes \cup {node_hash}, Append(unique, ns[i]))
             ELSE DedupScan(ns, P, i + 1, seen_hashes, unique)

\* remove_duplicate_nodes leaving out the last record of its input
remove_duplicate_nodesSkipLast(ns, P) ==
    DedupScan(SubSeq(ns, 1, Len(ns) - 1), P, 1, {}, <<>>)

remove_duplicate_nodes(ns, P) == DedupScan(ns, P, 1, {}, <<>>)

\* ---- split and rejoin of a polyline that is not simple ----
\* Such a polyline is a sequence path of positions from PathPoints, a position
\* visited twice being a point where the line meets itself (after noding, every
\* such point is a vertex).  A point of the split result is <<v, 0>> for the
\* position v, and <<path[j], -j>> or <<path[j], j>> for the point where the
\* line crosses the buffer circle of a Node at path[j] just before or just after
\* its j-th vertex.
Occurrences(p, x) == {i \in 1..Len(p) : p[i] = x}

\* line.is_simple is False: the line meets itself other than by being closed
NotSimple(p) ==
    \E i, j \in 1..Len(p) : i < j /\ p[i] = p[j] /\ ~(i = 1 /\ j = Len(p))

\* the vertex sequences explored: positions numbered in the order of their first
\* visit, no zero-length segment and no segment run through twice
NonSimplePaths ==
    {p \in UNION {[1..n -> PathPoints] : n \in 4..MaxPathLen} :
        /\ p[1] = 1
        /\ \A i \in 2..Len(p) : p[i] > 1 => \E j \in 1..(i - 1) : p[j] = p[i] - 1
        /\ \A i \in 1..(Len(p) - 1) : p[i] # p[i + 1]
        /\ \A i, j \in 1..(Len(p) - 1) : i < j => {p[i], p[i + 1]} # {p[j], p[j + 1]}
        /\ NotSimple(p)}

\* find_self_intersection: the points that end more than one noded piece
find_self_intersection(p) ==
    {<<x, 0>> : x \in {y \in Range(p) : Cardinality(Occurrences(p, y)) > 1}}

RECURSIVE WithBufferCrossings(_, _, _)
\* the vertices of the line with the crossings of the Node buffers put in
WithBufferCrossings(p, at, j) ==
    IF j > Len(p) THEN <<>>
    ELSE (IF p[j] \in at /\ j > 1 THEN <<(<<p[j], -j>>)>> ELSE <<>>)
         \o <<(<<p[j], 0>>)>>
         \o (IF p[j] \in at /\ j < Len(p) THEN <<(<<p[j], j>>)>> ELSE <<>>)
         \o WithBufferCrossings(p, at, j + 1)

RECURSIVE PiecesOf(_, _, _, _)
\* close a piece at every interior point of e that is flagged in brk
PiecesOf(e, brk, i, cur) ==
    IF i > Len(e) THEN <<cur>>
    ELSE IF brk[i] /\ i > 1 /\ i < Len(e)
         THEN <<Append(cur, e[i])>> \o PiecesOf(e, brk, i + 1, <<e[i]>>)
         ELSE PiecesOf(e, brk, i + 1, Append(cur, e[i]))

\* split(line, buffered_area) of such a line: difference() with the buffer circles
\* also breaks the line where it meets itself
splitNotSimple(p, at) ==
    LET e == WithBufferCrossings(p, at, 1)
        brk == [i \in 1..Len(e) |-> e[i][2] # 0 \/ e[i] \in find_self_intersection(p)]
    IN  PiecesOf(e, brk, 1, <<>>)

Front(s) == SubSeq(s, 1, Len(s) - 1)

RECURSIVE RejoinRun(_, _, _, _, _, _, _)
\* the inner while loop; k is i + 1, at collects the points joined at
RejoinRun(geoms, pts, k, current_line, next_line, joined_line, at) ==
    IF /\ Last(current_line) = First(next_line)
       /\ First(next_line) \in pts
       /\ k + 1 < Len(geoms)
    THEN RejoinRun(geoms, pts, k + 1, geoms[k + 1], geoms[k + 2],
                   Front(joined_line) \o Tail(next_line), at \cup {First(next_line)})
    ELSE [k |-> k, joined_line |-> joined_line, at |-> at]

RECURSIVE RejoinScan(_, _, _, _, _)
\* the outer while loop; k is i + 1
RejoinScan(geoms, pts, k, joined, at) ==
    IF k > Len(geoms) THEN [joined |-> joined, at |-> at]
    ELSE IF k + 1 <= Len(geoms)
              /\ Last(geoms[k]) = First(geoms[k + 1])
              /\ First(geoms[k + 1]) \in pts
         THEN LET joined_line == Front(geoms[k]) \o Tail(geoms[k + 1])
                  next_line == IF k + 2 <= Len(geoms) THEN geoms[k + 2] ELSE geoms[k + 1]
                  run == RejoinRun(geoms, pts, k + 1, geoms[k + 1], next_line, joined_line,
                                   at \cup {First(geoms[k + 1])})
              IN  RejoinScan(geoms, pts, run.k + 1, Append(joined, run.joined_line), run.at)
         ELSE RejoinScan(geoms, pts, k + 1, Append(joined, geoms[k]), at)

\* joined_lines of rejoin_self_intersection_breaks
rejoin_self_intersection_breaks(geoms, pts) == RejoinScan(geoms, pts, 1, <<>>, {}).joined

\* the points at which it joined two pieces
RejoinedAt(geoms, pts) == RejoinScan(geoms, pts, 1, <<>>, {}).at

\* the step-by-step rejoin before its first step
LoopIdle ==
    /\ loop_i = 0
    /\ loop_current = <<>>
    /\ loop_next = <<>>
    /\ loop_joined = <<>>
    /\ reads = {}
    /\ used = <<>>

\* shapely_line before its first assignment
Unbound == [bound |-> FALSE, coords |-> <<>>]

\* process_document_element before its first Placemark
ExtractIdle ==
    /\ placemarks = <<>>
    /\ pm = 1
    /\ shapely_line = Unbound
    /\ geojson_spans = <<>>

\* nothing handed to the stand-alone runs
FnIdle ==
    /\ geojson_nodes = <<>>
    /\ precision = 1
    /\ unique_nodes = <<>>
    /\ unique_again = <<>>
    /\ path = <<>>
    /\ nodeAt = {}
    /\ self_intersect = {}
    /\ split_lines = <<>>
    /\ joined_lines = <<>>
    /\ LoopIdle
    /\ ExtractIdle

\* ---- initial states: the deduplicated placemarks of one KML file ----
Init ==
    /\ pc = "snap"
    /\ \E n \in 1..MaxNodes : \E ps \in [1..n -> NodeCoords] :
          nodes = [i \in 1..n |-> [id |-> i, name |-> NodeNames[i], pos |-> ps[i]]]
    /\ \E m \in 1..MaxSpans : \E gs \in [1..m -> Polylines] :
          lines = [i \in 1..m |-> [name |-> SpanNames[i], geom |-> gs[i]]]
    /\ spans = <<>>
    /\ nextId = Len(nodes) + 1
    /\ rawNodes = nodes
    /\ nodesPreSynth = <<>>
    /\ nodesPreA = <<>>
    /\ spansPreA = <<>>
    /\ mergedA = {}
    /\ rewritesA = {}
    /\ nodesPreB = <<>>
    /\ spansPreB = <<>>
    /\ foundB = <<>>
    /\ mergedB = {}
    /\ rewritesB = {}
    /\ files = {}
    /\ FnIdle

\* the placemarks handed to the snapping step, over the finer coordinates
SnapInit ==
    /\ pc = "snap"
    /\ \E n \in 1..MaxNodes : \E ps \in [1..n -> SnapNodeCoords] :
          nodes = [i \in 1..n |-> [id |-> i, name |-> NodeNames[i], pos |-> ps[i]]]
    /\ \E m \in 1..MaxSpans : \E gs \in [1..m -> SnapPolylines] :
          lines = [i \in 1..m |-> [name |-> SpanNames[i], geom |-> gs[i]]]
    /\ spans = <<>>
    /\ nextId = Len(nodes) + 1
    /\ rawNodes = nodes
    /\ nodesPreSynth = <<>>
    /\ nodesPreA = <<>>
    /\ spansPreA = <<>>
    /\ mergedA = {}
    /\ rewritesA = {}
    /\ nodesPreB = <<>>
    /\ spansPreB = <<>>
    /\ foundB = <<>>
    /\ mergedB = {}
    /\ rewritesB = {}
    /\ files = {}
    /\ FnIdle

\* process_kml_file: the extracted placemarks are written out, then every Node
\* is moved onto the nearest polyline
Snap ==
    /\ pc = "snap"
    /\ files' = files \cup {"output/nodes.geojson", "output/spans.geojson"}
    /\ nodes' = [i \in 1..Len(nodes) |->
                    [nodes[i] EXCEPT !.pos = snap_to_line(nodes[i].pos, lines)]]
    /\ pc' = "split"
    /\ UNCHANGED <<fnVars, lines, spans, nextId, rawNodes, nodesPreSynth, nodesPreA, spansPreA,
                   mergedA, rewritesA, nodesPreB, spansPreB, foundB, mergedB, rewritesB>>

\* main: gdf_spans = break_spans_at_node_points(...)
Split ==
    /\ pc = "split"
    /\ spans' = break_spans_at_node_points(nodes, lines, nextId)
    /\ nextId' = nextId + Len(spans')
    /\ pc' = "synth"
    /\ UNCHANGED <<fnVars, files, nodes, lines, rawNodes, nodesPreSynth, nodesPreA, spansPreA,
                   mergedA, rewritesA, nodesPreB, spansPreB, foundB, mergedB, rewritesB>>

\* main: add_missing_nodes(gdf_spans, gdf_ofds_nodes, ...)
Synth ==
    /\ pc = "synth"
    /\ LET new == add_missing_nodes(spans, nodes, nextId)
       IN  /\ nodes' = nodes \o new
           /\ nextId' = nextId + Len(new)
    /\ nodesPreSynth' = nodes
    /\ pc' = "link"
    /\ UNCHANGED <<fnVars, files, lines, spans, rawNodes, nodesPreA, spansPreA, mergedA, rewritesA,
                   nodesPreB, spansPreB, foundB, mergedB, rewritesB>>

\* main: add_nodes_to_spans(gdf_spans, gdf_ofds_nodes)
Link ==
    /\ pc = "link"
    /\ spans' = add_nodes_to_spans(spans, nodes)
    /\ pc' = "passA"
    /\ UNCHANGED <<fnVars, files, nodes, lines, nextId, rawNodes, nodesPreSynth, nodesPreA, spansPreA,
                   mergedA, rewritesA, nodesPreB, spansPreB, foundB, mergedB, rewritesB>>

\* main: merge_nearby_auto_gen_nodes(gdf_ofds_nodes, gdf_ofds_spans, 1e-1)
PassA ==
    /\ pc = "passA"
    /\ nodesPreA' = nodes
    /\ spansPreA' = spans
    /\ IF Len(FilteredNodes(nodes)) > 0 /\ HasNullEnd(spans)
       THEN /\ pc' = "failed"
            /\ UNCHANGED <<nodes, spans, mergedA, rewritesA>>
       ELSE \E res \in merge_nearby_auto_gen_nodes(nodes, spans, PassAThreshold) :
               /\ spans' = res.spans
               /\ nodes' = res.nodes
               /\ mergedA' = res.merged
               /\ rewritesA' = res.rew
               /\ pc' = "passB"
    /\ UNCHANGED <<fnVars, files, lines, nextId, rawNodes, nodesPreSynth, nodesPreB, spansPreB, foundB,
                   mergedB, rewritesB>>

\* main: merge_nearby_auto_gen_and_proper_nodes(gdf_ofds_nodes, gdf_ofds_spans, 1e-3)
PassB ==
    /\ pc = "passB"
    /\ nodesPreB' = nodes
    /\ spansPreB' = spans
    /\ IF HasNullEnd(spans)
       THEN /\ pc' = "failed"
            /\ UNCHANGED <<nodes, spans, foundB, mergedB, rewritesB>>
       ELSE \E res \in merge_nearby_auto_gen_and_proper_nodes(nodes, spans, PassBThreshold) :
               /\ spans' = res.out.spans
               /\ nodes' = res.out.nodes
               /\ mergedB' = res.out.merged
               /\ rewritesB' = res.out.rew
               /\ foundB' = res.found
               /\ pc' = "done"
    /\ UNCHANGED <<fnVars, files, lines, nextId, rawNodes, nodesPreSynth, nodesPreA, spansPreA, mergedA,
                   rewritesA>>

\* main: the two collections are written with to_file and read back.
\* (output/intersects.geojson is written by break_spans_at_node_points only for a
\* polyline that is not simple, which the polylines of Init never are.)
Save ==
    /\ pc = "done"
    /\ files' = files \cup {"spans_ofds_output", "nodes_ofds_output"}
    /\ pc' = "saved"
    /\ UNCHANGED <<fnVars, nodes, lines, spans, nextId, rawNodes, nodesPreSynth, nodesPreA,
                   spansPreA, mergedA, rewritesA, nodesPreB, spansPreB, foundB, mergedB,
                   rewritesB>>

\* main: conversion, then the JSON file is written; open() or dump() may raise
\* IOError, which main raises again
Convert ==
    /\ pc = "saved"
    /\ \E written \in BOOLEAN :
          IF written
          THEN /\ files' = files \cup {"ofds_json_output"}
               /\ pc' = "complete"
          ELSE /\ files' = files
               /\ pc' = "failed"
    /\ UNCHANGED <<fnVars, nodes, lines, spans, nextId, rawNodes, nodesPreSynth, nodesPreA,
                   spansPreA, mergedA, rewritesA, nodesPreB, spansPreB, foundB, mergedB,
                   rewritesB>>

Next == Snap \/ Split \/ Synth \/ Link \/ PassA \/ PassB \/ Save \/ Convert

\* ---- stand-alone runs ----
\* the pipeline's own variables while a function is run alone
PipeIdle ==
    /\ nodes = <<>>
    /\ lines = <<>>
    /\ spans = <<>>
    /\ nextId = 1
    /\ rawNodes = <<>>
    /\ nodesPreSynth = <<>>
    /\ nodesPreA = <<>>
    /\ spansPreA = <<>>
    /\ mergedA = {}
    /\ rewritesA = {}
    /\ nodesPreB = <<>>
    /\ spansPreB = <<>>
    /\ foundB = <<>>
    /\ mergedB = {}
    /\ rewritesB = {}
    /\ files = {}

pipeVars == <<nodes, lines, spans, nextId, rawNodes, nodesPreSynth, nodesPreA, spansPreA,
              mergedA, rewritesA, nodesPreB, spansPreB, foundB, mergedB, rewritesB, files>>

PointRecords == {[name |-> n, lon |-> c[1], lat |-> c[2]] : n \in DedupNames, c \in DedupPoints}

\* the point records of a KML file, before deduplication
DedupInit ==
    /\ pc = "dedup"
    /\ PipeIdle
    /\ \E n \in 1..MaxRecords : geojson_nodes \in [1..n -> PointRecords]
    /\ precision \in Precisions
    /\ unique_nodes = <<>>
    /\ unique_again = <<>>
    /\ path = <<>>
    /\ nodeAt = {}
    /\ self_intersect = {}
    /\ split_lines = <<>>
    /\ joined_lines = <<>>
    /\ LoopIdle
    /\ ExtractIdle

\* process_kml_file: geojson_nodes = remove_duplicate_nodes(geojson_nodes, 1)
Dedup ==
    /\ pc = "dedup"
    /\ unique_nodes' = remove_duplicate_nodes(geojson_nodes, precision)
    /\ pc' = "dedupAgain"
    /\ UNCHANGED <<pipeVars, loopVars, extractVars, geojson_nodes, precision, unique_again, path, nodeAt,
                   self_intersect, split_lines, joined_lines>>

\* remove_duplicate_nodes applied to what it returned
DedupAgain ==
    /\ pc = "dedupAgain"
    /\ unique_again' = remove_duplicate_nodes(unique_nodes, precision)
    /\ pc' = "deduped"
    /\ UNCHANGED <<pipeVars, loopVars, extractVars, geojson_nodes, precision, unique_nodes, path, nodeAt,
                   self_intersect, split_lines, joined_lines>>

DedupNext == Dedup \/ DedupAgain

\* one polyline that is not simple, with a Node on one or more of its vertices
RejoinInit ==
    /\ pc = "splitNotSimple"
    /\ PipeIdle
    /\ geojson_nodes = <<>>
    /\ precision = 1
    /\ unique_nodes = <<>>
    /\ unique_again = <<>>
    /\ path \in NonSimplePaths
    /\ nodeAt \in SUBSET Range(path)
    /\ nodeAt # {}
    /\ self_intersect = {}
    /\ split_lines = <<>>
    /\ joined_lines = <<>>
    /\ LoopIdle
    /\ ExtractIdle

\* break_spans_at_node_points, lines 481 to 483
SplitNotSimple ==
    /\ pc = "splitNotSimple"
    /\ self_intersect' = find_self_intersection(path)
    /\ split_lines' = splitNotSimple(path, nodeAt)
    /\ pc' = "rejoin"
    /\ UNCHANGED <<pipeVars, loopVars, extractVars, geojson_nodes, precision, unique_nodes, unique_again, path,
                   nodeAt, joined_lines>>

\* break_spans_at_node_points, line 484
Rejoin ==
    /\ pc = "rejoin"
    /\ joined_lines' = rejoin_self_intersection_breaks(split_lines, self_intersect)
    /\ pc' = "rejoined"
    /\ UNCHANGED <<pipeVars, loopVars, extractVars, geojson_nodes, precision, unique_nodes, unique_again, path,
                   nodeAt, self_intersect, split_lines>>

RejoinNext == SplitNotSimple \/ Rejoin

\* ---- rejoin_self_intersection_breaks, one loop iteration at a time ----
\* any sequence of pieces with any set of self-intersection points
RejoinLoopInit ==
    /\ pc = "while"
    /\ PipeIdle
    /\ geojson_nodes = <<>>
    /\ precision = 1
    /\ unique_nodes = <<>>
    /\ unique_again = <<>>
    /\ path = <<>>
    /\ nodeAt = {}
    /\ self_intersect \in SUBSET AnyPoints
    /\ \E n \in 1..MaxPieces : split_lines \in [1..n -> AnyPieces]
    /\ joined_lines = <<>>
    /\ LoopIdle
    /\ ExtractIdle

\* split_lines.geoms[k] for the 0-based index k
Geom(k) == split_lines[k + 1]

\* the inner while loop without its test of i + 2 against the number of pieces
LoopInnerUnbounded ==
    /\ pc = "inner"
    /\ IF /\ Last(loop_current) = First(loop_next)
          /\ First(loop_next) \in self_intersect
       THEN /\ loop_joined' = Front(loop_joined) \o Tail(loop_next)
            /\ loop_i' = loop_i + 1
            /\ reads' = reads \cup {loop_i + 1, loop_i + 2}
            /\ used' = Append(used, loop_i + 1)
            /\ IF loop_i + 2 < Len(split_lines)
               THEN /\ loop_current' = Geom(loop_i + 1)
                    /\ loop_next' = Geom(loop_i + 2)
                    /\ pc' = "inner"
               ELSE /\ pc' = "failed"
                    /\ UNCHANGED <<loop_current, loop_next>>
            /\ UNCHANGED joined_lines
       ELSE /\ joined_lines' = Append(joined_lines, loop_joined)
            /\ loop_i' = loop_i + 1
            /\ pc' = "while"
            /\ UNCHANGED <<loop_current, loop_next, loop_joined, reads, used>>
    /\ UNCHANGED <<pipeVars, extractVars, geojson_nodes, precision, unique_nodes, unique_again,
                   path, nodeAt, self_intersect, split_lines>>

\* lines 566 to 581: one test of the inner while loop, with its body or its exit.
\* A read of geoms beyond the last piece raises IndexError.
LoopInner ==
    /\ pc = "inner"
    /\ IF /\ Last(loop_current) = First(loop_next)
          /\ First(loop_next) \in self_intersect
          /\ loop_i + 2 < Len(split_lines)
       THEN /\ loop_joined' = Front(loop_joined) \o Tail(loop_next)
            /\ loop_i' = loop_i + 1
            /\ reads' = reads \cup {loop_i + 1, loop_i + 2}
            /\ used' = Append(used, loop_i + 1)
            /\ IF loop_i + 2 < Len(split_lines)
               THEN /\ loop_current' = Geom(loop_i + 1)
                    /\ loop_next' = Geom(loop_i + 2)
                    /\ pc' = "inner"
               ELSE /\ pc' = "failed"
                    /\ UNCHANGED <<loop_current, loop_next>>
            /\ UNCHANGED joined_lines
       ELSE /\ joined_lines' = Append(joined_lines, loop_joined)
            /\ loop_i' = loop_i + 1
            /\ pc' = "while"
            /\ UNCHANGED <<loop_current, loop_next, loop_joined, reads, used>>
    /\ UNCHANGED <<pipeVars, extractVars, geojson_nodes, precision, unique_nodes, unique_again,
                   path, nodeAt, self_intersect, split_lines>>

\* lines 549 to 565 and 582 to 587: one iteration of the outer loop, up to the
\* inner loop when the piece at i and the next one are joined
LoopOuter ==
    /\ pc = "while"
    /\ loop_i < Len(split_lines)
    /\ IF loop_i + 1 < Len(split_lines)
       THEN IF /\ Last(Geom(loop_i)) = First(Geom(loop_i + 1))
               /\ First(Geom(loop_i + 1)) \in self_intersect
            THEN /\ loop_joined' = Front(Geom(loop_i)) \o Tail(Geom(loop_i + 1))
                 /\ loop_i' = loop_i + 1
                 /\ loop_current' = Geom(loop_i + 1)
                 /\ loop_next' = IF loop_i + 2 < Len(split_lines)
                                 THEN Geom(loop_i + 2) ELSE Geom(loop_i + 1)
                 /\ reads' = reads \cup {loop_i, loop_i + 1}
                                   \cup (IF loop_i + 2 < Len(split_lines)
                                         THEN {loop_i + 2} ELSE {})
                 /\ used' = used \o <<loop_i, loop_i + 1>>
                 /\ pc' = "inner"
                 /\ UNCHANGED joined_lines
            ELSE /\ joined_lines' = Append(joined_lines, Geom(loop_i))
                 /\ loop_i' = loop_i + 1
                 /\ loop_current' = Geom(loop_i)
                 /\ loop_next' = Geom(loop_i + 1)
                 /\ reads' = reads \cup {loop_i, loop_i + 1}
                 /\ used' = Append(used, loop_i)
                 /\ pc' = "while"
                 /\ UNCHANGED loop_joined
       ELSE /\ joined_lines' = Append(joined_lines, Geom(loop_i))
            /\ loop_i' = loop_i + 1
            /\ loop_current' = Geom(loop_i)
            /\ reads' = reads \cup {loop_i}
            /\ used' = Append(used, loop_i)
            /\ pc' = "while"
            /\ UNCHANGED <<loop_next, loop_joined>>
    /\ UNCHANGED <<pipeVars, extractVars, geojson_nodes, precision, unique_nodes, unique_again,
                   path, nodeAt, self_intersect, split_lines>>

\* lines 549 and 588 to 589: the outer loop ends and the segments are returned
LoopReturn ==
    /\ pc = "while"
    /\ loop_i >= Len(split_lines)
    /\ pc' = "rejoined"
    /\ UNCHANGED <<pipeVars, fnVars>>

RejoinLoopNext == LoopOuter \/ LoopInner \/ LoopReturn

\* ---- process_document_element: the LineStrings of the Placemarks ----
Placemarks ==
    {[name |-> n, kind |-> k, coordinates |-> c] :
        n \in PlacemarkNames, k \in PlacemarkKinds, c \in LineCoordinates}

ExtractInit ==
    /\ pc = "extract"
    /\ PipeIdle
    /\ geojson_nodes = <<>>
    /\ precision = 1
    /\ unique_nodes = <<>>
    /\ unique_again = <<>>
    /\ path = <<>>
    /\ nodeAt = {}
    /\ self_intersect = {}
    /\ split_lines = <<>>
    /\ joined_lines = <<>>
    /\ LoopIdle
    /\ \E n \in 1..MaxPlacemarks : placemarks \in [1..n -> Placemarks]
    /\ pm = 1
    /\ shapely_line = Unbound
    /\ geojson_spans = <<>>

\* is_span_duplicate
IsSpanDuplicate(name, coords) ==
    \E k \in 1..Len(geojson_spans) :
        geojson_spans[k].name = name /\ geojson_spans[k].coordinates = coords

\* geojson_spans after the Span of Placemark pm with the geometry of line is added
AppendSpan(line) ==
    IF IsSpanDuplicate(placemarks[pm].name, line.coords)
    THEN geojson_spans
    ELSE Append(geojson_spans, [name |-> placemarks[pm].name, coordinates |-> line.coords,
                                placemark |-> pm])

\* lines 161 to 384: the body of the loop for one Placemark.  A read of
\* shapely_line before its first assignment raises UnboundLocalError.
ExtractPlacemark ==
    /\ pc = "extract"
    /\ pm <= Len(placemarks)
    /\ LET p == placemarks[pm]
           line == IF Len(p.coordinates) >= MinVertices
                   THEN [bound |-> TRUE, coords |-> p.coordinates]
                   ELSE shapely_line
       IN  /\ shapely_line' = line
           /\ IF p.kind = "MultiGeometry"
              THEN /\ geojson_spans' = IF Len(p.coordinates) >= MinVertices
                                       THEN AppendSpan(line) ELSE geojson_spans
                   /\ pm' = pm + 1
                   /\ pc' = "extract"
              ELSE IF line.bound
                   THEN /\ geojson_spans' = AppendSpan(line)
                        /\ pm' = pm + 1
                        /\ pc' = "extract"
                   ELSE /\ pc' = "failed"
                        /\ UNCHANGED <<geojson_spans, pm>>
    /\ UNCHANGED <<pipeVars, loopVars, placemarks, geojson_nodes, precision, unique_nodes,
                   unique_again, path, nodeAt, self_intersect, split_lines, joined_lines>>

\* line 387: return geojson_nodes, geojson_spans
ExtractReturn ==
    /\ pc = "extract"
    /\ pm > Len(placemarks)
    /\ pc' = "extracted"
    /\ UNCHANGED <<pipeVars, fnVars>>

ExtractNext == ExtractPlacemark \/ ExtractReturn

\* ---- properties ----
Ids(ns) == {ns[i].id : i \in 1..Len(ns)}
NodeById(ns, id) == ns[CHOOSE i \in 1..Len(ns) : ns[i].id = id]
IndexById(ns, id) == CHOOSE i \in 1..Len(ns) : ns[i].id = id

\* C1: after Pass A and Pass B every start id and end id of every Span is the id
\* of a Node still in the Node set.
C1_NoDroppedReference ==
    pc = "done" =>
        \A k \in 1..Len(spans) : spans[k].start.id \in Ids(nodes) /\ spans[k].end.id \in Ids(nodes)

\* C2: after Pass A and after Pass B the position in every Span's start record is
\* its first vertex and the position in its end record is its last vertex.
C2_EndpointPositions ==
    pc \in {"passB", "done"} =>
        \A k \in 1..Len(spans) :
            /\ spans[k].start.pos = First(spans[k].geom)
            /\ spans[k].end.pos = Last(spans[k].geom)

\* C3: after the Synthesizer and then the Linker have run, every Span has a
\* start and an end (neither is None).
C3_NoOrphanEndpoints == pc = "passA" => ~HasNullEnd(spans)

C3_Witness ==
    /\ pc = "passA"
    /\ Len(nodes) > Len(nodesPreSynth)
    /\ \E k \in 1..Len(spans) :
          spans[k].start.name # AutoName /\ spans[k].end.name = AutoName

Shrunk(after, before) ==
    /\ Len(after) <= Len(before)
    /\ Range(after) \subseteq Range(before)
    /\ \A n \in Range(before) \ Range(after) : n.name = AutoName

\* C4: each Merger pass only removes Nodes, and only synthesized ones: the Nodes
\* after the pass are Nodes of before with id, name and position unchanged.
C4_OnlyAutoNodesRemoved ==
    /\ pc = "passB" => Shrunk(nodes, nodesPreA)
    /\ pc = "done" => Shrunk(nodesPreB, nodesPreA) /\ Shrunk(nodes, nodesPreB)

C4_Witness ==
    /\ pc = "done"
    /\ Len(nodesPreB) < Len(nodesPreA)
    /\ Len(nodes) < Len(nodesPreB)

\* C5: every reference rewrite of Pass B takes the reference from a synthesized
\* Node and gives it to a different, named Node within the threshold of it.
C5_PassBLoserAutoGainerNamed ==
    \A r \in rewritesB :
        LET from == NodeById(nodesPreB, r.from)
            to == NodeById(nodesPreB, r.to)
        IN  /\ from.name = AutoName
            /\ to.name # AutoName
            /\ r.from # r.to
            /\ Dist(from.pos, to.pos) <= PassBThreshold

NamedIn(cluster, ns) == {i \in Range(cluster) : ns[i + 1].name # AutoName}

\* C6: in Pass B no rewrite (and so no drop) comes from a cluster that holds two
\* or more named Nodes.
C6_NoMergeInMultiNamedCluster ==
    \A r \in rewritesB : Cardinality(NamedIn(r.cluster, nodesPreB)) < 2

\* C7: every reference rewrite of Pass A goes from a synthesized Node j to a
\* synthesized Node i of lower index that is at most the threshold away.
C7_PassAOnlyWithinThreshold ==
    \A r \in rewritesA :
        LET from == NodeById(nodesPreA, r.from)
            to == NodeById(nodesPreA, r.to)
        IN  /\ from.name = AutoName
            /\ to.name = AutoName
            /\ IndexById(nodesPreA, r.to) < IndexById(nodesPreA, r.from)
            /\ Dist(from.pos, to.pos) <= PassAThreshold

\* C8: after Pass A every Span end that referenced a merged-away Node references
\* a surviving Node whose position is the vertex at that end, and no merged-away
\* Node is left in the Node set.
C8_PassARewritesEveryReference ==
    pc = "passB" =>
        /\ Ids(nodes) \cap mergedA = {}
        /\ \A k \in 1..Len(spans) :
              /\ spansPreA[k].start.id \in mergedA =>
                    /\ spans[k].start.id \in Ids(nodes)
                    /\ First(spans[k].geom) = NodeById(nodes, spans[k].start.id).pos
              /\ spansPreA[k].end.id \in mergedA =>
                    /\ spans[k].end.id \in Ids(nodes)
                    /\ Last(spans[k].geom) = NodeById(nodes, spans[k].end.id).pos

\* C9: when the pipeline has finished, every Node's position is a vertex of some Span.
C9_EveryNodeOnAVertex ==
    pc = "done" =>
        \A i \in 1..Len(nodes) : \E k \in 1..Len(spans) : nodes[i].pos \in Range(spans[k].geom)

SegmentsNamed(ss, name) == SelectIdx(ss, [k \in 1..Len(ss) |-> ss[k].name = name], 1)

\* C10: a polyline with one Node on it, sitting on an interior vertex, is emitted
\* as exactly two segments that meet at the Node's position and carry its name.
C10_SplitAtInteriorVertex ==
    pc = "synth" =>
        \A l \in 1..Len(lines) : \A i \in 1..Len(nodes) :
            (/\ Intersected(lines[l].geom, nodes) = {i}
             /\ \E v \in 2..(Len(lines[l].geom) - 1) : lines[l].geom[v] = nodes[i].pos)
            => LET segs == SegmentsNamed(spans, lines[l].name)
               IN  /\ Len(segs) = 2
                   /\ Last(segs[1].geom) = nodes[i].pos
                   /\ First(segs[2].geom) = nodes[i].pos

RECURSIVE JoinSegs(_, _, _)
\* the vertex sequences of segs[k..] appended to acc, one copy of a shared
\* vertex dropped at every join
JoinSegs(segs, k, acc) ==
    IF k > Len(segs) THEN acc
    ELSE LET g == segs[k].geom
         IN  IF acc # <<>> /\ Last(acc) = First(g)
             THEN JoinSegs(segs, k + 1, acc \o Tail(g))
             ELSE JoinSegs(segs, k + 1, acc \o g)

\* C11: the segments emitted for a polyline, joined in order with one copy of each
\* shared vertex dropped, are the polyline's vertex sequence.
C11_SplitterExactness ==
    pc = "synth" =>
        \A l \in 1..Len(lines) :
            JoinSegs(SegmentsNamed(spans, lines[l].name), 1, <<>>) = lines[l].geom

\* C12: a polyline that no Node buffer intersects is emitted as exactly one
\* segment with the polyline's geometry, whatever its number of vertices.
C12_UntouchedSpanKept ==
    pc = "synth" =>
        \A l \in 1..Len(lines) :
            Intersected(lines[l].geom, nodes) = {}
            => LET segs == SegmentsNamed(spans, lines[l].name)
               IN  Len(segs) = 1 /\ segs[1].geom = lines[l].geom

\* the segment end vertices, and those with no Node of ns within the tolerance
EndVertices(ss) == UNION {{First(ss[k].geom), Last(ss[k].geom)} : k \in 1..Len(ss)}
Uncovered(ss, ns) ==
    {v \in EndVertices(ss) : \A i \in 1..Len(ns) : Dist(ns[i].pos, v) > SynthTolerance}

\* C15: after add_missing_nodes every segment's first vertex and last vertex have
\* a Node of the returned Node set within the tolerance.
C15_EveryEndpointHasNode ==
    pc = "link" => Uncovered(spans, nodes) = {}

C15_Witness ==
    /\ pc = "link"
    /\ Len(nodes) > Len(nodesPreSynth)
    /\ \E v \in EndVertices(spans) : \E i \in 1..Len(nodesPreSynth) :
          nodesPreSynth[i].pos # v /\ Dist(nodesPreSynth[i].pos, v) <= SynthTolerance

\* C16: add_missing_nodes appends exactly one Node per distinct end vertex that
\* had no Node within the tolerance: at that vertex, named AutoName, with an id
\* no Node or Span carries, and nothing else.
C16_OneNodePerUncoveredEndpoint ==
    pc = "link" =>
        LET old == Len(nodesPreSynth)
            new == SubSeq(nodes, old + 1, Len(nodes))
            gaps == Uncovered(spans, nodesPreSynth)
        IN  /\ SubSeq(nodes, 1, old) = nodesPreSynth
            /\ {new[j].pos : j \in 1..Len(new)} = gaps
            /\ Len(new) = Cardinality(gaps)
            /\ \A j \in 1..Len(new) :
                  /\ new[j].name = AutoName
                  /\ new[j].id \notin Ids(nodesPreSynth)
                  /\ new[j].id \notin {spans[k].id : k \in 1..Len(spans)}
                  /\ \A h \in 1..Len(new) : new[h].id = new[j].id => h = j

C16_Witness ==
    /\ pc = "link"
    /\ Len(nodes) >= Len(nodesPreSynth) + 2
    /\ \E k, h \in 1..Len(spans) :
          /\ k # h
          /\ Last(spans[k].geom) = First(spans[h].geom)
          /\ Last(spans[k].geom) \in Uncovered(spans, nodesPreSynth)
    /\ EndVertices(spans) \ Uncovered(spans, nodesPreSynth) # {}

SnapDistance(p, g) == Dist(p, NearestOnLine(p, g))
Closest(p, ls) ==
    {l \in 1..Len(ls) :
        \A h \in 1..Len(ls) : SnapDistance(p, ls[l].geom) <= SnapDistance(p, ls[h].geom)}
Selected(p, ls) ==
    NearestScan(p, ls, 1, [found |-> FALSE, dist |-> 0, line |-> 0, point |-> 0]).line

\* C19: snap_to_line selects the first, in iteration order, of the polylines
\* nearest to the point, and the position it returns lies on that polyline.
C19_SnapSelectsFirstNearest ==
    pc = "split" =>
        \A i \in 1..Len(nodes) :
            LET p == rawNodes[i].pos
                sel == Selected(p, lines)
            IN  /\ sel = Min(Closest(p, lines))
                /\ nodes[i].pos >= First(lines[sel].geom)
                /\ nodes[i].pos <= Last(lines[sel].geom)

C19_Witness ==
    /\ pc = "split"
    /\ \E i \in 1..Len(nodes) : \E l, h \in Closest(rawNodes[i].pos, lines) :
          /\ l < h
          /\ NearestOnLine(rawNodes[i].pos, lines[l].geom)
                # NearestOnLine(rawNodes[i].pos, lines[h].geom)
          /\ nodes[i].pos <= Last(lines[l].geom)
          /\ nodes[i].pos < First(lines[h].geom)

\* C20: the returned position is the first vertex of the selected polyline when
\* the nearest point is inside the tolerance buffer of the first vertex, else the
\* last vertex when it is inside that of the last vertex, else the nearest point.
C20_SnapToEndVertex ==
    pc = "split" =>
        \A i \in 1..Len(nodes) :
            LET p == rawNodes[i].pos
                g == lines[Min(Closest(p, lines))].geom
                q == NearestOnLine(p, g)
            IN  /\ Dist(q, First(g)) < SnapTolerance => nodes[i].pos = First(g)
                /\ (Dist(q, First(g)) >= SnapTolerance /\ Dist(q, Last(g)) < SnapTolerance)
                      => nodes[i].pos = Last(g)
                /\ (Dist(q, First(g)) >= SnapTolerance /\ Dist(q, Last(g)) >= SnapTolerance)
                      => nodes[i].pos = q

C20_Witness ==
    /\ pc = "split"
    /\ \E i, j \in 1..Len(nodes) :
          LET gi == lines[Min(Closest(rawNodes[i].pos, lines))].geom
              qi == NearestOnLine(rawNodes[i].pos, gi)
              gj == lines[Min(Closest(rawNodes[j].pos, lines))].geom
              qj == NearestOnLine(rawNodes[j].pos, gj)
          IN  /\ qi # First(gi)
              /\ Dist(qi, First(gi)) < SnapTolerance
              /\ Dist(qi, Last(gi)) < SnapTolerance
              /\ nodes[i].pos = First(gi)
              /\ Dist(qj, First(gj)) = SnapTolerance
              /\ nodes[j].pos = qj

\* C17: remove_duplicate_nodes applied to its own output returns that output.
C17_DedupIdempotent ==
    pc = "deduped" => unique_again = unique_nodes

C17_Witness ==
    /\ pc = "deduped"
    /\ Len(unique_nodes) < Len(geojson_nodes)
    /\ Len(unique_nodes) >= 2
    /\ unique_again = unique_nodes

\* the first record of every key, in input order
FirstPerKey(ns, P) ==
    SelectIdx(ns, [i \in 1..Len(ns) |-> \A j \in 1..(i - 1) : Key(ns[j], P) # Key(ns[i], P)], 1)

\* C18: remove_duplicate_nodes returns exactly the first record of every key
\* (name, round(lon, P), round(lat, P)), in input order.
C18_FirstRecordPerKey ==
    pc \in {"dedupAgain", "deduped"} => unique_nodes = FirstPerKey(geojson_nodes, precision)

\* C13: in the output of rejoin_self_intersection_breaks no two consecutive
\* segments meet at a point of the self-intersection set.
C13_RejoinIsMaximal ==
    pc = "rejoined" =>
        \A k \in 1..(Len(joined_lines) - 1) :
            ~(/\ Last(joined_lines[k]) = First(joined_lines[k + 1])
              /\ Last(joined_lines[k]) \in self_intersect)

\* C14: no two pieces are joined at a point a Node sits on.
C14_NoRejoinAtNode ==
    pc = "rejoined" =>
        \A x \in RejoinedAt(split_lines, self_intersect) : x[1] \notin nodeAt

\* C24: every segment break_spans_at_node_points emits has at least 3 vertices,
\* and so has every Span after Pass A and after Pass B.
C24_AtLeastThreeVertices ==
    pc \in {"synth", "link", "passA", "passB", "done"} =>
        \A k \in 1..Len(spans) : Len(spans[k].geom) >= 3

\* both passes rewrote a reference, and the splitter dropped a 2-vertex polyline
C24_Witness ==
    /\ pc = "done"
    /\ rewritesA # {}
    /\ rewritesB # {}
    /\ \E i \in 1..Len(lines) : Len(lines[i].geom) = 2

\* C27: the Nodes Pass A keeps and the start and end id it leaves in every Span
\* do not depend on the order in which the merge pairs are gone through.
C27_PassAOrderIndependent ==
    (pc = "passA" /\ ~HasNullEnd(spans)) =>
        \A r1, r2 \in merge_nearby_auto_gen_nodes(nodes, spans, PassAThreshold) :
            /\ r1.nodes = r2.nodes
            /\ \A k \in 1..Len(spans) :
                  /\ r1.spans[k].start.id = r2.spans[k].start.id
                  /\ r1.spans[k].end.id = r2.spans[k].end.id

\* C28: after Pass A no two synthesized Nodes that remain are within the
\* threshold of one another.
C28_NoCloseSynthesizedPair ==
    pc = "passB" =>
        \A i, j \in 1..Len(nodes) :
            (i < j /\ nodes[i].name = AutoName /\ nodes[j].name = AutoName)
                => Dist(nodes[i].pos, nodes[j].pos) > PassAThreshold

\* Pass A merged some synthesized Node away and two or more of them remain
C28_Witness ==
    /\ pc = "passB"
    /\ mergedA # {}
    /\ Cardinality({i \in 1..Len(nodes) : nodes[i].name = AutoName}) >= 2

\* C29: after add_missing_nodes and add_nodes_to_spans every synthesized Node is
\* the start or the end of some Span.
C29_SynthesizedNodeIsReferenced ==
    pc = "passA" =>
        \A i \in (Len(nodesPreSynth) + 1)..Len(nodes) :
            \E k \in 1..Len(spans) :
                spans[k].start.id = nodes[i].id \/ spans[k].end.id = nodes[i].id

\* a Node was synthesized within the link tolerance of a placemark Node
C29_Witness ==
    /\ pc = "passA"
    /\ \E i \in (Len(nodesPreSynth) + 1)..Len(nodes) :
          \E j \in 1..Len(nodesPreSynth) :
              Dist(nodes[i].pos, nodes[j].pos) < LinkTolerance

\* what a pass may change of the Spans: nothing but a first or last vertex, and
\* that only where it rewrote the start or end reference
FrameKept(after, before, rew) ==
    /\ Len(after) = Len(before)
    /\ \A k \in 1..Len(before) :
          /\ after[k].id = before[k].id
          /\ after[k].name = before[k].name
          /\ Len(after[k].geom) = Len(before[k].geom)
          /\ \A i \in 2..(Len(before[k].geom) - 1) : after[k].geom[i] = before[k].geom[i]
          /\ First(after[k].geom) # First(before[k].geom)
                => /\ after[k].start.id # before[k].start.id
                   /\ \E r \in rew : r.span = before[k].id /\ r.side = "start"
          /\ Last(after[k].geom) # Last(before[k].geom)
                => /\ after[k].end.id # before[k].end.id
                   /\ \E r \in rew : r.span = before[k].id /\ r.side = "end"

\* C30: either pass keeps the number of Spans, every Span's id, name and interior
\* vertices, and moves a first (last) vertex only where it rewrote the start
\* (end) id; Pass A without a synthesized Node returns both collections as given.
C30_MergerFrame ==
    /\ pc \in {"passB", "done"} => FrameKept(IF pc = "passB" THEN spans ELSE spansPreB,
                                             spansPreA, rewritesA)
    /\ pc = "done" => FrameKept(spans, spansPreB, rewritesB)
    /\ (pc = "passB" /\ Len(FilteredNodes(nodesPreA)) = 0)
          => (spans = spansPreA /\ nodes = nodesPreA)

\* both passes moved an end vertex of some Span
C30_Witness ==
    /\ pc = "done"
    /\ \E k \in 1..Len(spansPreA) : spansPreB[k].geom # spansPreA[k].geom
    /\ \E k \in 1..Len(spansPreB) : spans[k].geom # spansPreB[k].geom


\* C22: a LineString Placemark with fewer than 2 vertices emits no Span: no Span
\* of the list was added for such a Placemark.
C22_ShortLineStringEmitsNoSpan ==
    \A k \in 1..Len(geojson_spans) :
        LET p == placemarks[geojson_spans[k].placemark]
        IN  ~(p.kind = "LineString" /\ Len(p.coordinates) < MinVertices)

\* C23: a run that fails has written no file.
C23_FailedRunWritesNothing ==
    pc = "failed" => files = {}

\* C25: rejoin_self_intersection_breaks reads no piece outside 0..n-1, raises
\* nothing, and returns, for every sequence of pieces and every set of
\* self-intersection points.
C25_RejoinTerminatesInRange ==
    /\ [](pc # "failed" /\ reads \subseteq 0..(Len(split_lines) - 1))
    /\ <>(pc = "rejoined")

\* the function returned after joining the two pieces it was given
C25_Witness ==
    /\ pc = "rejoined"
    /\ Len(split_lines) = 2
    /\ Len(joined_lines) = 1

RECURSIVE Chain(_, _, _)
\* the vertex sequences segs[k..] appended to acc, one copy of a shared vertex
\* dropped wherever one ends on the vertex the next begins with
Chain(segs, k, acc) ==
    IF k > Len(segs) THEN acc
    ELSE IF acc # <<>> /\ Last(acc) = First(segs[k])
         THEN Chain(segs, k + 1, acc \o Tail(segs[k]))
         ELSE Chain(segs, k + 1, acc \o segs[k])

\* C26: every piece goes into exactly one output segment, in input order, and
\* the output segments chained together give the vertex sequence the input
\* pieces give when chained the same way.
C26_RejoinConservesPieces ==
    pc = "rejoined" =>
        /\ used = [k \in 1..Len(split_lines) |-> k - 1]
        /\ Chain(joined_lines, 1, <<>>) = Chain(split_lines, 1, <<>>)


Spec == Init /\ [][Next]_vars

\* the split and rejoin of one polyline that is not simple
RejoinSpec == RejoinInit /\ [][RejoinNext]_vars

\* remove_duplicate_nodes run alone, once and then on its own output
DedupSpec == DedupInit /\ [][DedupNext]_vars

\* snap_to_line applied to every placemark of the finer inputs
SnapSpec == SnapInit /\ [][Snap]_vars

\* rejoin_self_intersection_breaks step by step: the function runs on, one step
\* after another, until it returns or raises
RejoinLoopSpec == RejoinLoopInit /\ [][RejoinLoopNext]_vars /\ WF_vars(RejoinLoopNext)

\* process_document_element over the Placemarks of one Folder
ExtractSpec == ExtractInit /\ [][ExtractNext]_vars
====
